---- MODULE Spec2Model ----
(***************************************************************************)
(* GraceNote: the freehand drawing surface (components/Canvas.tsx).        *)
(*                                                                         *)
(* The canvas bitmap is modelled as one scanline of device pixels.  A      *)
(* pointer position is a logical (CSS pixel) column of the container; the  *)
(* 2D context maps it to device pixels through the scale(dpr, dpr)         *)
(* transform the init effect installs.  devicePixelRatio is kept in        *)
(* quarters (4 = 1.0, 5 = 1.25, 8 = 2.0) so that the truncation done by    *)
(* the assignment canvas.width = clientWidth * dpr is part of the model.   *)
(*                                                                         *)
(* A step of the model is one browser task: an input event handler with    *)
(* the re-render and effect flush it causes, or the onload callback of an  *)
(* image whose decode has finished.                                        *)
(***************************************************************************)
EXTENDS Integers, Sequences, FiniteSets, TLC

\* ---------------------------------------------------------------- bounds
\* container.clientWidth, in CSS pixels
ClientWidth == 2
\* image decodes that may be in flight at the same time
MaxPending == 1
\* texts a note's fields take (0 is the empty text), notes created, and
\* backend calls in flight at once
MaxTitle == 1
MaxNotes == 1
MaxInflight == 2
\* the id 'temp-id' of a note that has no document yet; documents get 1, 2, ...
TempId == 0
\* null where an id is expected
NullId == -1
\* notes the earlier, local-only version of the app left in localStorage
MaxLocal == 2

\* ------------------------------------------------------ program constants
DefaultColor == "#1e1b4b"
Palette == {"#1e1b4b", "#dc2626", "#2563eb"}
DefaultLineWidth == 3
EraserColor == "#ffffff"
EraserWidth == 20
\* canvas.getBoundingClientRect(): left and top of the element on screen
RectLeft == 50
RectTop == 80
\* window.devicePixelRatio, in quarters
Dprs == {4, 5, 8}

\* a props value that was not supplied (initialImage?: string)
Undefined == [undefined |-> TRUE]
\* the canvas bitmap value of a pixel nothing was painted on
Blank == "blank"
\* the 2D context's state right after the bitmap is (re)allocated
CtxDefaultStyle == "#000000"
CtxDefaultWidth == 1
NoPath == [empty |-> TRUE]
\* no call of getCoordinates was made
None == [none |-> TRUE]

VARIABLES
    readOnly,        \* prop
    initialImage,    \* prop
    echo,            \* the host feeds onSave's value back as initialImage (Editor)
    dpr,             \* window.devicePixelRatio, in quarters
    isDrawing,       \* useState(false)
    color,           \* useState('#1e1b4b')
    lineWidth,       \* useState(3)
    isEraser,        \* useState(false)
    surface,         \* the canvas bitmap: a sequence of device pixels
    ctxStrokeStyle,  \* ctx.strokeStyle
    ctxLineWidth,    \* ctx.lineWidth
    ctxPath,         \* the context's current path
    pending,         \* images whose src was set and whose onload has not run
    emitted,         \* the calls of onSave made by the last step, in order
    lastEv,          \* the event the last step handled
    target,          \* what canvasRef.current and getContext('2d') give
    mapped,          \* the call of getCoordinates made by the last step
    viewMode,        \* MainApp: useState<ViewMode>('LIST')
    currentNote,     \* MainApp: useState<DevotionalNote | null>(null)
    note,            \* Editor: useState(initialNote); None while not mounted
    timer,           \* Editor: the autosave timeout and what its closure holds
    inflight,        \* addDoc / updateDoc calls that have not settled, in order
    docs,            \* the documents of the 'notes' collection
    now,             \* Date.now(), in ticks
    deleteDialogOpen, \* MainApp: useState(false)
    noteToDelete,    \* MainApp: useState<string | null>(null)
    alerted,         \* the last step called alert()
    cleared,         \* the timeout the last step passed to clearTimeout
    localNotes       \* localStorage's 'devo_notes' entry

vars == <<readOnly, initialImage, echo, dpr, isDrawing, color, lineWidth,
          isEraser, surface, ctxStrokeStyle, ctxLineWidth, ctxPath, pending,
          emitted, lastEv, target, mapped, viewMode, currentNote, note, timer,
          inflight, docs, now, deleteDialogOpen, noteToDelete, alerted,
          cleared, localNotes>>

props == <<readOnly, echo, dpr, target>>
dialog == <<deleteDialogOpen, noteToDelete>>
app == <<viewMode, currentNote, note, timer, inflight, docs, now, dialog,
         alerted, cleared, localNotes>>
tool == <<color, lineWidth, isEraser>>
ctxState == <<ctxStrokeStyle, ctxLineWidth, ctxPath>>

\* ------------------------------------------------------------- the bitmap
\* canvas.width = container.clientWidth * dpr (converted to an integer)
CanvasWidth(d) == (ClientWidth * d) \div 4

BlankSurface(d) == [j \in 1..CanvasWidth(d) |-> Blank]

\* device pixels touched by ink laid over the logical columns lo..hi under
\* the scale(dpr, dpr) transform
PaintCells(lo, hi, d, w) ==
    {j \in 1..w : lo * d < 4 * j /\ 4 * (j - 1) < (hi + 1) * d}

\* ctx.stroke(): paints the whole current path in the current strokeStyle
Stroke(surf, path, style, d) ==
    IF path = NoPath \/ ~path.seg
    THEN surf
    ELSE [j \in 1..Len(surf) |->
            IF j \in PaintCells(path.lo, path.hi, d, Len(surf))
            THEN style ELSE surf[j]]

\* ctx.moveTo(x, y): a new subpath of one point
MoveTo(x) == [lo |-> x, hi |-> x, seg |-> FALSE]

\* ctx.lineTo(x, y): on an empty path it only sets the start point
LineTo(path, x) ==
    IF path = NoPath
    THEN MoveTo(x)
    ELSE [lo |-> IF x < path.lo THEN x ELSE path.lo,
          hi |-> IF x > path.hi THEN x ELSE path.hi,
          seg |-> TRUE]

\* ctx.clearRect(0, 0, num / den, h) in logical units under the scale
\* transform: the device pixels left of (num / den) * dpr become blank
ClearRect(surf, num, den, d) ==
    [j \in 1..Len(surf) |->
        IF 4 * den * (j - 1) < num * d THEN Blank ELSE surf[j]]

\* ----------------------------------------------------------- the snapshot
\* canvas.toDataURL('image/png'): the whole bitmap, one PNG pixel per
\* device pixel; an unpainted pixel is encoded as a transparent one
PngPixel(p) == IF p = Blank THEN "transparent" ELSE p

ToDataURL(surf) ==
    [width |-> Len(surf), data |-> [j \in 1..Len(surf) |-> PngPixel(surf[j])]]

\* the empty string '' among the data URL values
EmptyString == [width |-> 0, data |-> <<>>]

\* JavaScript truthiness of an initialImage value
Truthy(v) == v # Undefined /\ v # EmptyString

\* source pixels of img that fall under destination device pixel j when the
\* image is stretched over clientWidth logical pixels
SrcPixels(img, j, d) ==
    {k \in 1..img.width :
        /\ 4 * (j - 1) * img.width < k * (ClientWidth * d)
        /\ (k - 1) * (ClientWidth * d) < 4 * j * img.width}

\* image smoothing: a destination pixel covering different source pixels
\* gets a blend of them
Resample(img, j, d) ==
    LET vals == {img.data[k] : k \in SrcPixels(img, j, d)}
    IN  IF Cardinality(vals) = 1 THEN CHOOSE v \in vals : TRUE ELSE "blend"

\* ctx.drawImage(img, 0, 0, clientWidth, clientHeight), source-over
DrawImage(surf, img, d) ==
    [j \in 1..Len(surf) |->
        LET s == Resample(img, j, d)
        IN  IF s = "transparent" THEN surf[j] ELSE s]

\* a snapshot saved by an earlier session on the same device: one stroke of
\* the default pen over the first logical column
SavedImage(d) ==
    ToDataURL(Stroke(BlankSurface(d), LineTo(MoveTo(0), 0), DefaultColor, d))

\* ------------------------------------------------------------ input events
\* pointer positions over the canvas element (one scanline high)
CanvasRect == [left |-> RectLeft, top |-> RectTop]
MouseEvents ==
    {[clientX |-> RectLeft + x, clientY |-> RectTop] :
        x \in 0..(ClientWidth - 1)}
TouchEvents ==
    {[touches |-> <<[clientX |-> RectLeft + x, clientY |-> RectTop]>>] :
        x \in 0..(ClientWidth - 1)}
\* a touchend lists the touches that remain on the screen
TouchEndEvents == {[touches |-> <<>>]} \cup TouchEvents

\* getCoordinates adding the element offset instead of subtracting it
getCoordinatesPage(e, rect) ==
    LET clientX == IF "touches" \in DOMAIN e
                   THEN e.touches[1].clientX
                   ELSE e.clientX
        clientY == IF "touches" \in DOMAIN e
                   THEN e.touches[1].clientY
                   ELSE e.clientY
    IN  [x |-> clientX + rect.left, y |-> clientY + rect.top]

getCoordinates(e, rect) ==
    LET clientX == IF "touches" \in DOMAIN e
                   THEN e.touches[1].clientX
                   ELSE e.clientX
        clientY == IF "touches" \in DOMAIN e
                   THEN e.touches[1].clientY
                   ELSE e.clientY
    IN  [x |-> clientX - rect.left, y |-> clientY - rect.top]

\* the record of one call getCoordinates(e, canvas)
Mapped(e) == [e |-> e, rect |-> CanvasRect, p |-> getCoordinates(e, CanvasRect)]

\* --------------------------------------------------------- the init effect
\* The effect body for an initialImage value img: the assignment to
\* canvas.width reallocates the bitmap and resets the context state; a
\* truthy image starts a decode whose onload runs in a later task.
InitEffect(img) ==
    IF target = "nocanvas"
    THEN UNCHANGED <<surface, ctxState, pending>>
    ELSE /\ surface' = BlankSurface(dpr)
         /\ ctxStrokeStyle' = CtxDefaultStyle
         /\ ctxLineWidth' = CtxDefaultWidth
         /\ ctxPath' = NoPath
         /\ pending' = IF Truthy(img) /\ target = "ok"
                       THEN pending \cup {img} ELSE pending

\* The state after the first render and the first run of the init effect.
Mounted ==
    /\ dpr \in Dprs
    /\ initialImage \in {Undefined, SavedImage(dpr)}
    /\ isDrawing = FALSE
    /\ color = DefaultColor
    /\ lineWidth = DefaultLineWidth
    /\ isEraser = FALSE
    /\ surface = BlankSurface(dpr)
    /\ ctxStrokeStyle = CtxDefaultStyle
    /\ ctxLineWidth = CtxDefaultWidth
    /\ ctxPath = NoPath
    /\ pending = IF Truthy(initialImage) /\ target = "ok"
                 THEN {initialImage} ELSE {}
    /\ emitted = <<>>
    /\ lastEv = "mount"
    /\ mapped = None

\* a host that keeps the props it mounted the Canvas with
\* MainApp before any note is opened
AppIdle ==
    /\ viewMode = "LIST"
    /\ currentNote = None
    /\ note = None
    /\ timer = None
    /\ inflight = <<>>
    /\ docs = {}
    /\ now = 1
    /\ deleteDialogOpen = FALSE
    /\ noteToDelete = NullId
    /\ alerted = FALSE
    /\ cleared = None
    /\ localNotes = None

Init ==
    /\ readOnly \in BOOLEAN
    /\ echo = FALSE
    /\ target = "ok"
    /\ Mounted
    /\ AppIdle

\* the same host when the canvas element (canvasRef.current) or its 2D
\* context (canvas.getContext('2d')) is not available
InitDegraded ==
    /\ readOnly \in BOOLEAN
    /\ echo = FALSE
    /\ target \in {"nocanvas", "noctx"}
    /\ Mounted
    /\ AppIdle

\* Editor: <Canvas initialImage={note.drawingData}
\*                 onSave={(dataUrl) => setNote({...prev, drawingData: dataUrl})} />
InitEditor ==
    /\ readOnly = FALSE
    /\ echo = TRUE
    /\ target = "ok"
    /\ Mounted
    /\ AppIdle

\* ------------------------------------------------------------ the host
\* onSave(v) with the bitmap standing at surf.  A host that stores the value
\* and passes it back as initialImage (Editor) re-runs the init effect when
\* the value differs from the previous prop.
OnSave(v, surf) ==
    /\ emitted' = <<v>>
    /\ IF echo /\ v # initialImage
       THEN /\ Truthy(v) => (v \in pending \/ Cardinality(pending) < MaxPending)
            /\ initialImage' = v
            /\ InitEffect(v)
       ELSE /\ surface' = surf
            /\ UNCHANGED <<initialImage, ctxState, pending>>

\* ------------------------------------------------------------ the handlers
NoOp ==
    /\ emitted' = <<>>
    /\ mapped' = None
    /\ UNCHANGED <<initialImage, isDrawing, tool, surface, ctxState, pending>>

\* startDrawing without the readOnly guard
startDrawingUnguarded(e) ==
    IF target # "ok"
    THEN NoOp
    ELSE /\ isDrawing' = TRUE
         /\ mapped' = Mapped(e)
         /\ ctxPath' = MoveTo(mapped'.p.x)
         /\ ctxStrokeStyle' = IF isEraser THEN EraserColor ELSE color
         /\ ctxLineWidth' = IF isEraser THEN EraserWidth ELSE lineWidth
         /\ emitted' = <<>>
         /\ UNCHANGED <<initialImage, tool, surface, pending>>

\* startDrawing with the eraser drawn at the pen's width
startDrawingPenWidth(e) ==
    IF readOnly \/ target # "ok"
    THEN NoOp
    ELSE /\ isDrawing' = TRUE
         /\ mapped' = Mapped(e)
         /\ ctxPath' = MoveTo(mapped'.p.x)
         /\ ctxStrokeStyle' = IF isEraser THEN EraserColor ELSE color
         /\ ctxLineWidth' = lineWidth
         /\ emitted' = <<>>
         /\ UNCHANGED <<initialImage, tool, surface, pending>>

\* startDrawing that ignores input until the initial decode has settled
startDrawingGated(e) ==
    IF readOnly \/ target # "ok" \/ pending # {}
    THEN NoOp
    ELSE /\ isDrawing' = TRUE
         /\ mapped' = Mapped(e)
         /\ ctxPath' = MoveTo(mapped'.p.x)
         /\ ctxStrokeStyle' = IF isEraser THEN EraserColor ELSE color
         /\ ctxLineWidth' = IF isEraser THEN EraserWidth ELSE lineWidth
         /\ emitted' = <<>>
         /\ UNCHANGED <<initialImage, tool, surface, pending>>

startDrawing(e) ==
    IF readOnly \/ target # "ok"
    THEN NoOp
    ELSE /\ isDrawing' = TRUE
         /\ mapped' = Mapped(e)
         /\ ctxPath' = MoveTo(mapped'.p.x)
         /\ ctxStrokeStyle' = IF isEraser THEN EraserColor ELSE color
         /\ ctxLineWidth' = IF isEraser THEN EraserWidth ELSE lineWidth
         /\ emitted' = <<>>
         /\ UNCHANGED <<initialImage, tool, surface, pending>>

\* draw that notifies the owner after every segment
drawSaving(e) ==
    IF ~isDrawing \/ readOnly \/ target # "ok"
    THEN NoOp
    ELSE /\ mapped' = Mapped(e)
         /\ ctxPath' = LineTo(ctxPath, mapped'.p.x)
         /\ surface' = Stroke(surface, ctxPath', ctxStrokeStyle, dpr)
         /\ emitted' = <<ToDataURL(surface')>>
         /\ UNCHANGED <<initialImage, isDrawing, tool, ctxStrokeStyle,
                        ctxLineWidth, pending>>

\* draw without the isDrawing guard
drawUnguarded(e) ==
    IF readOnly \/ target # "ok"
    THEN NoOp
    ELSE /\ mapped' = Mapped(e)
         /\ ctxPath' = LineTo(ctxPath, mapped'.p.x)
         /\ surface' = Stroke(surface, ctxPath', ctxStrokeStyle, dpr)
         /\ emitted' = <<>>
         /\ UNCHANGED <<initialImage, isDrawing, tool, ctxStrokeStyle,
                        ctxLineWidth, pending>>

draw(e) ==
    IF ~isDrawing \/ readOnly \/ target # "ok"
    THEN NoOp
    ELSE /\ mapped' = Mapped(e)
         /\ ctxPath' = LineTo(ctxPath, mapped'.p.x)
         /\ surface' = Stroke(surface, ctxPath', ctxStrokeStyle, dpr)
         /\ emitted' = <<>>
         /\ UNCHANGED <<initialImage, isDrawing, tool, ctxStrokeStyle,
                        ctxLineWidth, pending>>

\* only the canvas element is tested before onSave, not its context
stopDrawing ==
    IF readOnly
    THEN NoOp
    ELSE /\ isDrawing' = FALSE
         /\ mapped' = None
         /\ IF target = "nocanvas"
            THEN /\ emitted' = <<>>
                 /\ UNCHANGED <<initialImage, surface, ctxState, pending>>
            ELSE OnSave(ToDataURL(surface), surface)
         /\ UNCHANGED tool

\* clearCanvas dividing the bitmap width by dpr twice
clearCanvasUnscaled ==
    IF target # "ok"
    THEN NoOp
    ELSE /\ mapped' = None
         /\ OnSave(EmptyString,
                   ClearRect(surface, 16 * Len(surface), dpr * dpr, dpr))
         /\ UNCHANGED <<isDrawing, tool>>

clearCanvas ==
    IF target # "ok"
    THEN NoOp
    ELSE /\ mapped' = None
         /\ OnSave(EmptyString, ClearRect(surface, 4 * Len(surface), dpr, dpr))
         /\ UNCHANGED <<isDrawing, tool>>

\* ------------------------------------------------------- event bindings
onMouseDown(e) == lastEv' = "mousedown" /\ startDrawing(e) /\ UNCHANGED <<props, app>>
onMouseMove(e) == lastEv' = "mousemove" /\ draw(e) /\ UNCHANGED <<props, app>>
onMouseUp == lastEv' = "mouseup" /\ stopDrawing /\ UNCHANGED <<props, app>>
\* a pointer leave that pauses the stroke without notifying the owner
onMouseLeavePause ==
    /\ lastEv' = "mouseleave"
    /\ IF readOnly THEN NoOp
       ELSE /\ isDrawing' = FALSE
            /\ emitted' = <<>>
            /\ mapped' = None
            /\ UNCHANGED <<initialImage, tool, surface, ctxState, pending>>
    /\ UNCHANGED <<props, app>>

onMouseLeave == lastEv' = "mouseleave" /\ stopDrawing /\ UNCHANGED <<props, app>>
onTouchStart(e) == lastEv' = "touchstart" /\ startDrawing(e) /\ UNCHANGED <<props, app>>
onTouchMove(e) == lastEv' = "touchmove" /\ draw(e) /\ UNCHANGED <<props, app>>
\* a touch end that maps the event's first touch point before it stops
onTouchEndMapped(e) ==
    /\ lastEv' = "touchend"
    /\ IF readOnly THEN NoOp
       ELSE /\ isDrawing' = FALSE
            /\ mapped' = [e |-> e, rect |-> CanvasRect, p |-> None]
            /\ OnSave(ToDataURL(surface), surface)
            /\ UNCHANGED tool
    /\ UNCHANGED <<props, app>>

\* stopDrawing takes no event: e.touches is not read
onTouchEnd(e) == lastEv' = "touchend" /\ stopDrawing /\ UNCHANGED <<props, app>>

\* the toolbar exists only when !readOnly
onClickPen ==
    /\ ~readOnly
    /\ lastEv' = "pen"
    /\ isEraser' = FALSE
    /\ emitted' = <<>>
    /\ mapped' = None
    /\ UNCHANGED <<props, app, initialImage, isDrawing, color, lineWidth, surface,
                   ctxState, pending>>

onClickColor(c) ==
    /\ ~readOnly
    /\ lastEv' = "color"
    /\ color' = c
    /\ isEraser' = FALSE
    /\ emitted' = <<>>
    /\ mapped' = None
    /\ UNCHANGED <<props, app, initialImage, isDrawing, lineWidth, surface,
                   ctxState, pending>>

\* an eraser button that also resets the pen color
onClickEraserResetColor ==
    /\ ~readOnly
    /\ lastEv' = "eraser"
    /\ isEraser' = TRUE
    /\ color' = DefaultColor
    /\ emitted' = <<>>
    /\ mapped' = None
    /\ UNCHANGED <<props, app, initialImage, isDrawing, lineWidth, surface,
                   ctxState, pending>>

onClickEraser ==
    /\ ~readOnly
    /\ lastEv' = "eraser"
    /\ isEraser' = TRUE
    /\ emitted' = <<>>
    /\ mapped' = None
    /\ UNCHANGED <<props, app, initialImage, isDrawing, color, lineWidth, surface,
                   ctxState, pending>>

onClickClear ==
    /\ ~readOnly
    /\ lastEv' = "clear"
    /\ clearCanvas
    /\ UNCHANGED <<props, app>>

\* img.onload of a decode started by the init effect
imgOnload(img) ==
    /\ img \in pending
    /\ lastEv' = "onload"
    /\ surface' = DrawImage(surface, img, dpr)
    /\ pending' = pending \ {img}
    /\ emitted' = <<>>
    /\ mapped' = None
    /\ UNCHANGED <<props, app, initialImage, isDrawing, tool, ctxState>>

\* an error handler that wipes the bitmap and reports the empty snapshot
imgOnerrorClears(img) ==
    /\ img \in pending
    /\ lastEv' = "onerror"
    /\ surface' = BlankSurface(dpr)
    /\ pending' = pending \ {img}
    /\ emitted' = <<EmptyString>>
    /\ mapped' = None
    /\ UNCHANGED <<props, app, initialImage, isDrawing, tool, ctxState>>

\* the decode of img fails: the image has no onerror handler, so the load
\* ends and nothing runs
imgOnerror(img) ==
    /\ img \in pending
    /\ lastEv' = "onerror"
    /\ pending' = pending \ {img}
    /\ emitted' = <<>>
    /\ mapped' = None
    /\ UNCHANGED <<props, app, initialImage, isDrawing, tool, surface, ctxState>>

Next ==
    \/ \E e \in MouseEvents : onMouseDown(e)
    \/ \E e \in MouseEvents : onMouseMove(e)
    \/ onMouseUp
    \/ onMouseLeave
    \/ \E e \in TouchEvents : onTouchStart(e)
    \/ \E e \in TouchEvents : onTouchMove(e)
    \/ \E e \in TouchEndEvents : onTouchEnd(e)
    \/ onClickPen
    \/ \E c \in Palette : onClickColor(c)
    \/ onClickEraser
    \/ onClickClear
    \/ \E img \in pending : imgOnload(img)
    \/ \E img \in pending : imgOnerror(img)

\* without a context no decode is ever started
NextDegraded ==
    \/ \E e \in MouseEvents : onMouseDown(e)
    \/ \E e \in MouseEvents : onMouseMove(e)
    \/ onMouseUp
    \/ onMouseLeave
    \/ \E e \in TouchEvents : onTouchStart(e)
    \/ \E e \in TouchEvents : onTouchMove(e)
    \/ \E e \in TouchEndEvents : onTouchEnd(e)
    \/ onClickPen
    \/ \E c \in Palette : onClickColor(c)
    \/ onClickEraser
    \/ onClickClear

Spec == Init /\ [][Next]_vars

SpecEditor == InitEditor /\ [][Next]_vars

SpecDegraded == InitDegraded /\ [][NextDegraded]_vars

\* ------------------------------------------- the coordinate mapper alone
\* getCoordinates applied to mouse events and to touch events of one or two
\* touch points, for several positions of the element on the screen
Rects ==
    {CanvasRect, [left |-> 50, top |-> 80], [left |-> 0, top |-> 0],
     [left |-> 10, top |-> 5]}
ClientPoints ==
    {[clientX |-> x, clientY |-> y] :
        x \in {RectLeft, RectLeft + 1, 120}, y \in {RectTop, 130}}
PointerEvents ==
    ClientPoints
      \cup {[touches |-> <<a>>] : a \in ClientPoints}
      \cup {[touches |-> <<a, b>>] : a \in ClientPoints, b \in ClientPoints}

InitCoord ==
    /\ readOnly = FALSE
    /\ echo = FALSE
    /\ target = "ok"
    /\ Mounted
    /\ AppIdle
    /\ dpr = 4
    /\ initialImage = Undefined

callGetCoordinates(e, rect) ==
    /\ lastEv' = "getCoordinates"
    /\ mapped' = [e |-> e, rect |-> rect, p |-> getCoordinates(e, rect)]
    /\ UNCHANGED <<props, app, initialImage, isDrawing, tool, surface, ctxState,
                   pending, emitted>>

NextCoord == \E e \in PointerEvents, rect \in Rects : callGetCoordinates(e, rect)

SpecCoord == InitCoord /\ [][NextCoord]_vars

\* ------------------------------------------------------------ event kinds
DownEvents == {"mousedown", "touchstart"}
MoveEvents == {"mousemove", "touchmove"}
StopEvents == {"mouseup", "mouseleave", "touchend"}
\* ------------------------------------------------------------------ claims

\* C1: on a writable canvas a down event and a move event never invoke
\* onSave, and the up event that ends a gesture invokes it exactly once, with
\* the encoding of the bitmap as the last move of the gesture left it.
C1_SingleEmission ==
    [][/\ (lastEv' \in DownEvents \cup MoveEvents) => emitted' = <<>>
       /\ (~readOnly /\ isDrawing /\ lastEv' \in {"mouseup", "touchend"})
            => /\ Len(emitted') = 1
               /\ emitted'[1] = ToDataURL(surface)
               /\ ~isDrawing']_vars

C1_Witness ==
    /\ ~readOnly
    /\ lastEv = "mouseup"
    /\ ~isDrawing
    /\ ctxPath # NoPath
    /\ ctxPath.seg
    /\ \E j \in 1..Len(surface) : surface[j] = DefaultColor
    /\ emitted = <<ToDataURL(surface)>>

\* C2: onSave is invoked at most once per step, and only by a clear or by an
\* event that takes the session from DRAWING to IDLE; an up, leave or
\* touch-end received in IDLE emits nothing.
C2_EmitsOnlyOnGestureEndOrClear ==
    [][emitted' # <<>>
         => /\ Len(emitted') = 1
            /\ lastEv' = "clear" \/ (isDrawing /\ ~isDrawing')]_vars

\* C3: with readOnly the session stays IDLE, no step invokes onSave, no
\* input event changes the bitmap and the clear command never runs.
C3_ReadOnly ==
    [][readOnly
         => /\ ~isDrawing'
            /\ emitted' = <<>>
            /\ lastEv' # "clear"
            /\ (lastEv' \in DownEvents \cup MoveEvents \cup StopEvents)
                 => surface' = surface]_vars

C3_Witness ==
    /\ readOnly
    /\ lastEv = "touchmove"
    /\ pending = {}
    /\ \E j \in 1..Len(surface) : surface[j] # Blank

\* C4: a move event received in IDLE leaves the bitmap, the session state
\* and the context's path alone and does not invoke onSave.
C4_MoveInIdle ==
    [][(~isDrawing /\ lastEv' \in MoveEvents)
         => /\ surface' = surface
            /\ ~isDrawing'
            /\ ctxPath' = ctxPath
            /\ emitted' = <<>>]_vars

C4_Witness ==
    /\ ~readOnly
    /\ lastEv = "mousemove"
    /\ ~isDrawing
    /\ ctxPath # NoPath
    /\ \E j \in 1..Len(surface) : surface[j] = Blank

\* C5: a pointer leave received in DRAWING does what a pointer up does
\* there: the session returns to IDLE, onSave is invoked once with the
\* encoding of the bitmap, and the tool settings are unchanged.
C5_LeaveEndsStroke ==
    [][(~readOnly /\ isDrawing /\ lastEv' \in {"mouseup", "mouseleave"})
         => /\ ~isDrawing'
            /\ emitted' = <<ToDataURL(surface)>>
            /\ UNCHANGED <<color, lineWidth, isEraser>>
            /\ ~echo => UNCHANGED <<surface, ctxStrokeStyle, ctxLineWidth,
                                    ctxPath, initialImage, pending>>]_vars

C5_Witness ==
    /\ ~readOnly
    /\ lastEv = "mouseleave"
    /\ ~isDrawing
    /\ ctxPath # NoPath
    /\ ctxPath.seg
    /\ emitted = <<ToDataURL(surface)>>
    /\ \E j \in 1..Len(surface) : surface[j] \in Palette

\* C6: an invocation of onSave made while the bitmap holds no ink passes the
\* empty string, whichever event triggers it.
C6_EmptySentinel ==
    [][(emitted' # <<>> /\ lastEv' \in StopEvents
          /\ \A j \in 1..Len(surface) : surface[j] = Blank)
         => emitted' = <<EmptyString>>]_vars

\* C7: the clear command blanks the whole bitmap and invokes onSave exactly
\* once, with the empty string, in one step that changes neither the session
\* state nor the tool settings.
C7_Clear ==
    [][lastEv' = "clear"
         => /\ \A j \in 1..Len(surface') : surface'[j] = Blank
            /\ Len(surface') = Len(surface)
            /\ emitted' = <<EmptyString>>
            /\ isDrawing' = isDrawing
            /\ UNCHANGED <<color, lineWidth, isEraser>>]_vars

C7_Witness ==
    /\ lastEv = "clear"
    /\ isDrawing
    /\ ctxPath # NoPath
    /\ ctxPath.seg
    /\ dpr = 8
    /\ emitted = <<EmptyString>>
    /\ \A j \in 1..Len(surface) : surface[j] = Blank

\* C8: a stroke begun with the eraser selected is set up in white at width
\* 20 whatever pen color is stored, a stroke begun with the pen is set up in
\* the stored pen color at width 3, every segment is painted in the style
\* the stroke was set up with, and choosing the eraser or the pen keeps the
\* stored pen color.
C8_EraserOverride ==
    [][/\ (~readOnly /\ lastEv' \in DownEvents)
            => IF isEraser
               THEN ctxStrokeStyle' = "#ffffff" /\ ctxLineWidth' = 20
               ELSE ctxStrokeStyle' = color /\ ctxLineWidth' = 3
       /\ (lastEv' \in MoveEvents)
            => /\ ctxStrokeStyle' = ctxStrokeStyle
               /\ ctxLineWidth' = ctxLineWidth
               /\ \A j \in 1..Len(surface) :
                     surface'[j] # surface[j] => surface'[j] = ctxStrokeStyle
       /\ (lastEv' \in {"eraser", "pen"}) => color' = color]_vars

C8_Witness ==
    /\ lastEv = "mousemove"
    /\ isDrawing
    /\ isEraser
    /\ color = "#dc2626"
    /\ ctxStrokeStyle = "#ffffff"
    /\ ctxLineWidth = 20
    /\ \E j \in 1..Len(surface) : surface[j] = "#ffffff"

\* C9: the eraser button and the pen button change only the eraser flag;
\* the pen width is 3 in every state and no toolbar action changes it.
C9_ToolFrame ==
    [][/\ lineWidth' = 3
       /\ (lastEv' \in {"eraser", "pen"})
            => /\ isEraser' = (lastEv' = "eraser")
               /\ UNCHANGED <<color, lineWidth, isDrawing, surface,
                              ctxStrokeStyle, ctxLineWidth, ctxPath,
                              initialImage, pending>>
               /\ emitted' = <<>>]_vars

C9_Witness ==
    /\ lastEv = "eraser"
    /\ isEraser
    /\ color = "#2563eb"
    /\ lineWidth = 3

\* C10: encoding the bitmap, decoding that snapshot into a fresh bitmap of
\* the same size and device pixel ratio and encoding again gives the first
\* snapshot.
C10_RoundTrip ==
    ToDataURL(DrawImage(BlankSurface(dpr), ToDataURL(surface), dpr))
        = ToDataURL(surface)

\* --------------------------------------------- MainApp, Editor: autosave
\* a note is [id, title, createdAt]; the title stands for the fields the
\* autosave effect compares.  The canvas state is held at its mount value.
canvas == <<props, initialImage, isDrawing, tool, surface, ctxState, pending,
            emitted, mapped>>
Titles == 0..MaxTitle

\* setTimeout(() => {...}, 1000) of the render in which the effect ran: it
\* closes over that render's note, initialNote and onSave (handleSaveNote,
\* which in turn closes over currentNote)
Timeout(n, init) == [note |-> n, initialNote |-> init, currentNoteId |-> init.id]

Remove(q, i) == [j \in 1..(Len(q) - 1) |-> IF j < i THEN q[j] ELSE q[j + 1]]

InitApp ==
    /\ readOnly = FALSE
    /\ echo = FALSE
    /\ target = "ok"
    /\ Mounted
    /\ AppIdle
    /\ dpr = 4
    /\ initialImage = Undefined

createNote ==
    /\ viewMode = "LIST"
    /\ now <= MaxNotes
    /\ LET newNote == [id |-> TempId, title |-> 0, createdAt |-> now]
       IN  /\ currentNote' = newNote
           /\ note' = newNote
           /\ timer' = Timeout(newNote, newNote)
    /\ viewMode' = "EDITOR"
    /\ now' = now + 1
    /\ alerted' = FALSE
    /\ cleared' = None
    /\ lastEv' = "createNote"
    /\ UNCHANGED <<canvas, dialog, localNotes, inflight, docs>>

\* a card of the list: setCurrentNote(note); setViewMode('EDITOR')
onClickNoteCard(d) ==
    /\ viewMode = "LIST"
    /\ currentNote' = d
    /\ note' = d
    /\ timer' = Timeout(d, d)
    /\ viewMode' = "EDITOR"
    /\ alerted' = FALSE
    /\ cleared' = None
    /\ lastEv' = "noteCard"
    /\ UNCHANGED <<canvas, dialog, localNotes, inflight, docs, now>>

\* an unmount that leaves the timeout running
onBackKeepTimer ==
    /\ viewMode = "EDITOR"
    /\ viewMode' = "LIST"
    /\ note' = None
    /\ timer' = timer
    /\ alerted' = FALSE
    /\ cleared' = None
    /\ lastEv' = "back"
    /\ UNCHANGED <<canvas, dialog, localNotes, currentNote, inflight, docs, now>>

\* Editor's back button; the Editor unmounts and the autosave effect's
\* cleanup clears the timeout
onBack ==
    /\ viewMode = "EDITOR"
    /\ viewMode' = "LIST"
    /\ note' = None
    /\ timer' = None
    /\ alerted' = FALSE
    /\ cleared' = timer
    /\ lastEv' = "back"
    /\ UNCHANGED <<canvas, dialog, localNotes, currentNote, inflight, docs, now>>

\* Editor: the title input's onChange, then the autosave effect of the
\* render that follows
onChangeTitle(t) ==
    /\ viewMode = "EDITOR"
    /\ t # note.title
    /\ note' = [note EXCEPT !.title = t]
    /\ timer' = Timeout(note', currentNote)
    /\ alerted' = FALSE
    /\ cleared' = timer
    /\ lastEv' = "change"
    /\ UNCHANGED <<canvas, dialog, localNotes, viewMode, currentNote, inflight, docs, now>>

\* handleSaveNote up to its await; currentNoteId is the currentNote?.id of
\* the render whose handleSaveNote is called
handleSaveNote(updatedNote, currentNoteId) ==
    IF updatedNote.id = TempId
    THEN IF currentNoteId # TempId
         THEN UNCHANGED inflight
         ELSE inflight' = Append(inflight, [op |-> "addDoc", note |-> updatedNote])
    ELSE inflight' = Append(inflight, [op |-> "updateDoc", note |-> updatedNote])

\* the autosave timeout fires
onTimeout ==
    /\ timer # None
    /\ Len(inflight) < MaxInflight
    /\ timer' = None
    /\ IF timer.note.title # timer.initialNote.title
       THEN handleSaveNote(timer.note, timer.currentNoteId)
       ELSE UNCHANGED inflight
    /\ alerted' = FALSE
    /\ cleared' = None
    /\ lastEv' = "timeout"
    /\ UNCHANGED <<canvas, dialog, localNotes, viewMode, currentNote, note, docs, now>>

\* addDoc resolves: the rest of handleSaveNote, then Editor's sync effect
\* and, when the note's compared fields changed, its autosave effect
addDocResolved(i) ==
    /\ inflight[i].op = "addDoc"
    /\ LET newNote == [inflight[i].note EXCEPT !.id = Cardinality(docs) + 1]
       IN  /\ docs' = docs \cup {newNote}
           /\ currentNote' = newNote
           /\ IF viewMode = "EDITOR" /\ newNote.id # note.id
              THEN /\ note' = newNote
                   /\ timer' = IF newNote.title # note.title
                               THEN Timeout(newNote, newNote)
                               ELSE timer
                   /\ cleared' = IF newNote.title # note.title
                                 THEN timer
                                 ELSE None
              ELSE cleared' = None /\ UNCHANGED <<note, timer>>
    /\ inflight' = Remove(inflight, i)
    /\ alerted' = FALSE
    /\ lastEv' = "addDocResolved"
    /\ UNCHANGED <<canvas, dialog, localNotes, viewMode, now>>

updateDocResolved(i) ==
    /\ inflight[i].op = "updateDoc"
    /\ \E d \in docs : d.id = inflight[i].note.id
    /\ docs' = {IF d.id = inflight[i].note.id
                THEN [d EXCEPT !.title = inflight[i].note.title]
                ELSE d : d \in docs}
    /\ inflight' = Remove(inflight, i)
    /\ alerted' = FALSE
    /\ cleared' = None
    /\ lastEv' = "updateDocResolved"
    /\ UNCHANGED <<canvas, dialog, localNotes, viewMode, currentNote, note, timer, now>>

\* addDoc or updateDoc rejects: the catch block
saveRejected(i) ==
    /\ inflight[i].op \in {"addDoc", "updateDoc"}
    /\ inflight' = Remove(inflight, i)
    /\ \E code \in {"permission-denied", "unavailable"} :
          alerted' = (code # "permission-denied")
    /\ cleared' = None
    /\ lastEv' = "saveRejected"
    /\ UNCHANGED <<canvas, dialog, localNotes, viewMode, currentNote, note,
                   timer, docs, now>>

NextApp ==
    \/ createNote
    \/ \E d \in docs : onClickNoteCard(d)
    \/ onBack
    \/ \E t \in Titles : onChangeTitle(t)
    \/ onTimeout
    \/ \E i \in 1..Len(inflight) : addDocResolved(i)
    \/ \E i \in 1..Len(inflight) : updateDocResolved(i)
    \/ \E i \in 1..Len(inflight) : saveRejected(i)

SpecApp == InitApp /\ [][NextApp]_vars

\* the same when every backend write succeeds
NextAppOk ==
    \/ createNote
    \/ \E d \in docs : onClickNoteCard(d)
    \/ onBack
    \/ \E t \in Titles : onChangeTitle(t)
    \/ onTimeout
    \/ \E i \in 1..Len(inflight) : addDocResolved(i)
    \/ \E i \in 1..Len(inflight) : updateDocResolved(i)

SpecAppOk == InitApp /\ [][NextAppOk]_vars

\* ------------------------------------------------ MainApp: deleting a note
\* the notes collection holds documents when MainApp mounts
ExistingDocs ==
    {[id |-> 1, title |-> 0, createdAt |-> 0],
     [id |-> 2, title |-> 1, createdAt |-> 0]}

InitDelete ==
    /\ readOnly = FALSE
    /\ echo = FALSE
    /\ target = "ok"
    /\ Mounted
    /\ dpr = 4
    /\ initialImage = Undefined
    /\ viewMode = "LIST"
    /\ currentNote = None
    /\ note = None
    /\ timer = None
    /\ inflight = <<>>
    /\ docs = ExistingDocs
    /\ now = 1
    /\ deleteDialogOpen = FALSE
    /\ noteToDelete = NullId
    /\ alerted = FALSE
    /\ cleared = None
    /\ localNotes = None

handleDeleteNote(id) ==
    /\ noteToDelete' = id
    /\ deleteDialogOpen' = TRUE
    /\ alerted' = FALSE
    /\ cleared' = None
    /\ lastEv' = "deleteRequest"
    /\ UNCHANGED <<canvas, localNotes, viewMode, currentNote, note, timer,
                   inflight, docs, now>>

\* NoteCard: onDelete(note.id)
onDeleteCard(d) == viewMode = "LIST" /\ handleDeleteNote(d.id)

\* Editor: onDelete={() => handleDeleteNote(currentNote.id)}
onDeleteEditor == viewMode = "EDITOR" /\ handleDeleteNote(currentNote.id)

\* a cancel that only closes the dialog
onCancelKeepNote ==
    /\ deleteDialogOpen' = FALSE
    /\ noteToDelete' = noteToDelete
    /\ alerted' = FALSE
    /\ cleared' = None
    /\ lastEv' = "cancel"
    /\ UNCHANGED <<canvas, localNotes, viewMode, currentNote, note, timer,
                   inflight, docs, now>>

\* ConfirmDialog onCancel
onCancel ==
    /\ deleteDialogOpen' = FALSE
    /\ noteToDelete' = NullId
    /\ alerted' = FALSE
    /\ cleared' = None
    /\ lastEv' = "cancel"
    /\ UNCHANGED <<canvas, localNotes, viewMode, currentNote, note, timer,
                   inflight, docs, now>>

\* confirmDelete up to its await; the call keeps the noteToDelete and the
\* currentNote of the render it was made in
confirmDelete ==
    /\ Len(inflight) < MaxInflight
    /\ IF noteToDelete = NullId
       THEN UNCHANGED inflight
       ELSE inflight' = Append(inflight,
                               [op |-> "deleteDoc", id |-> noteToDelete,
                                currentNote |-> currentNote])
    /\ alerted' = FALSE
    /\ cleared' = None
    /\ lastEv' = "confirm"
    /\ UNCHANGED <<canvas, dialog, localNotes, viewMode, currentNote, note,
                   timer, docs, now>>

\* deleteDoc resolves: the rest of confirmDelete; leaving the EDITOR view
\* unmounts the Editor
deleteDocResolved(i) ==
    /\ inflight[i].op = "deleteDoc"
    /\ docs' = {d \in docs : d.id # inflight[i].id}
    /\ IF inflight[i].currentNote # None
          /\ inflight[i].currentNote.id = inflight[i].id
       THEN /\ viewMode' = "LIST"
            /\ currentNote' = None
            /\ note' = None
            /\ timer' = None
            /\ cleared' = timer
       ELSE /\ cleared' = None
            /\ UNCHANGED <<viewMode, currentNote, note, timer>>
    /\ deleteDialogOpen' = FALSE
    /\ noteToDelete' = NullId
    /\ inflight' = Remove(inflight, i)
    /\ alerted' = FALSE
    /\ lastEv' = "deleteDocResolved"
    /\ UNCHANGED <<canvas, localNotes, now>>

\* deleteDoc rejects: the catch block of confirmDelete
deleteDocRejected(i) ==
    /\ inflight[i].op = "deleteDoc"
    /\ inflight' = Remove(inflight, i)
    /\ alerted' = TRUE
    /\ cleared' = None
    /\ lastEv' = "deleteDocRejected"
    /\ UNCHANGED <<canvas, dialog, localNotes, viewMode, currentNote, note,
                   timer, docs, now>>

NextDelete ==
    \/ \E d \in docs : onClickNoteCard(d)
    \/ onBack
    \/ \E t \in Titles : onChangeTitle(t)
    \/ onTimeout
    \/ \E i \in 1..Len(inflight) : updateDocResolved(i)
    \/ \E i \in 1..Len(inflight) : saveRejected(i)
    \/ \E d \in docs : onDeleteCard(d)
    \/ onDeleteEditor
    \/ onCancel
    \/ confirmDelete
    \/ \E i \in 1..Len(inflight) : deleteDocResolved(i)
    \/ \E i \in 1..Len(inflight) : deleteDocRejected(i)

SpecDelete == InitDelete /\ [][NextDelete]_vars

\* ------------------------------------- MainApp: local-to-cloud migration
\* the k-th note of the local-only app: its own id and creation time
LocalNote(k, t) == [id |-> NullId - k, title |-> t, createdAt |-> 0 - k]
\* JSON.parse(localNotes) throws
Corrupt == [corrupt |-> TRUE]
\* what localStorage.getItem('devo_notes') may give when MainApp mounts
LocalStores ==
    {None, Corrupt, [notes |-> <<>>]}
      \cup {[notes |-> <<LocalNote(k, t)>>] : k \in 1..MaxLocal, t \in Titles}
      \cup {[notes |-> <<LocalNote(p[1], t), LocalNote(p[2], u)>>] :
               p \in {q \in (1..MaxLocal) \X (1..MaxLocal) : q[1] # q[2]},
               t \in Titles, u \in Titles}

InitMigration ==
    /\ readOnly = FALSE
    /\ echo = FALSE
    /\ target = "ok"
    /\ Mounted
    /\ dpr = 4
    /\ initialImage = Undefined
    /\ viewMode = "LIST"
    /\ currentNote = None
    /\ note = None
    /\ timer = None
    /\ inflight = <<>>
    /\ docs = {}
    /\ now = 1
    /\ deleteDialogOpen = FALSE
    /\ noteToDelete = NullId
    /\ alerted = FALSE
    /\ cleared = None
    /\ localNotes \in LocalStores

\* one run of the migration effect, up to the await of batch.commit(); the
\* effect runs on every mount of MainApp (twice under React.StrictMode) and
\* when user changes
migrateNotes ==
    /\ Len(inflight) < MaxInflight
    /\ IF localNotes # None /\ localNotes # Corrupt /\ Len(localNotes.notes) > 0
       THEN inflight' = Append(inflight,
                               [op |-> "commit", notes |-> localNotes.notes])
       ELSE UNCHANGED inflight
    /\ alerted' = FALSE
    /\ cleared' = None
    /\ lastEv' = "migrateNotes"
    /\ UNCHANGED <<canvas, dialog, localNotes, viewMode, currentNote, note,
                   timer, docs, now>>

\* batch.commit() resolves: every note of the batch is a new document
commitResolved(i) ==
    /\ inflight[i].op = "commit"
    /\ docs' = docs \cup {[inflight[i].notes[j] EXCEPT
                              !.id = Cardinality(docs) + j] :
                            j \in 1..Len(inflight[i].notes)}
    /\ localNotes' = None
    /\ inflight' = Remove(inflight, i)
    /\ alerted' = FALSE
    /\ cleared' = None
    /\ lastEv' = "commitResolved"
    /\ UNCHANGED <<canvas, dialog, viewMode, currentNote, note, timer, now>>

\* a failed commit that drops the local notes
commitRejectedRemoves(i) ==
    /\ inflight[i].op = "commit"
    /\ inflight' = Remove(inflight, i)
    /\ localNotes' = None
    /\ alerted' = FALSE
    /\ cleared' = None
    /\ lastEv' = "commitRejected"
    /\ UNCHANGED <<canvas, dialog, viewMode, currentNote, note, timer, docs,
                   now>>

\* batch.commit() rejects: the catch block (console.error only)
commitRejected(i) ==
    /\ inflight[i].op = "commit"
    /\ inflight' = Remove(inflight, i)
    /\ localNotes' = localNotes
    /\ alerted' = FALSE
    /\ cleared' = None
    /\ lastEv' = "commitRejected"
    /\ UNCHANGED <<canvas, dialog, viewMode, currentNote, note, timer, docs,
                   now>>

NextMigration ==
    \/ migrateNotes
    \/ \E i \in 1..Len(inflight) : commitResolved(i)
    \/ \E i \in 1..Len(inflight) : commitRejected(i)

SpecMigration == InitMigration /\ [][NextMigration]_vars

\* C11: the mapped coordinate of a mouse event, and of a touch event taken
\* at its first touch point, is (clientX - rect.left, clientY - rect.top); an
\* element at (50, 80) and a pointer at (120, 130) give (70, 50).
C11_CoordinateMapping ==
    mapped # None
      => LET first == IF "touches" \in DOMAIN mapped.e
                      THEN mapped.e.touches[1]
                      ELSE mapped.e
         IN  /\ mapped.p.x = first.clientX - mapped.rect.left
             /\ mapped.p.y = first.clientY - mapped.rect.top
             /\ (mapped.rect = [left |-> 50, top |-> 80]
                   /\ first = [clientX |-> 120, clientY |-> 130])
                  => mapped.p = [x |-> 70, y |-> 50]

C11_Witness ==
    /\ mapped # None
    /\ "touches" \in DOMAIN mapped.e
    /\ Len(mapped.e.touches) = 2
    /\ mapped.e.touches[2] # mapped.e.touches[1]
    /\ mapped.rect = [left |-> 50, top |-> 80]
    /\ mapped.p = [x |-> 70, y |-> 50]

\* C12: while the canvas element or its 2D context is unavailable, no step
\* changes the session state or the bitmap or invokes onSave.
C12_UnavailableNoOp ==
    [][target # "ok"
         => /\ isDrawing' = isDrawing
            /\ surface' = surface
            /\ emitted' = <<>>]_vars

\* C13: a down event received while the session is DRAWING leaves the path
\* in progress and the context's stroke style alone.
C13_DownInDrawingKeepsPath ==
    [][(isDrawing /\ lastEv' \in DownEvents)
         => UNCHANGED <<ctxPath, ctxStrokeStyle, ctxLineWidth>>]_vars

\* C14: from the step after the down event that leaves IDLE to the event
\* that returns to IDLE the context's stroke color and width do not change,
\* whatever toolbar and input events arrive in between.
C14_OneStylePerGesture ==
    [][(isDrawing /\ isDrawing')
         => /\ ctxStrokeStyle' = ctxStrokeStyle
            /\ ctxLineWidth' = ctxLineWidth]_vars

\* C15: while the Canvas stays mounted in Editor, no step other than clear
\* re-sizes the bitmap or turns an inked pixel blank.
C15_OnlyClearWipes ==
    [][lastEv' # "clear"
         => /\ Len(surface') = Len(surface)
            /\ \A j \in 1..Len(surface) :
                  surface[j] # Blank => surface'[j] # Blank]_vars

\* C16: the decode of the initial snapshot is still in flight after the
\* mount; while it is, a down event starts a stroke and a move paints, and
\* neither settles the decode; when onload runs it paints every opaque pixel
\* of the image over whatever the bitmap holds there.
C16_DecodeNotOrdered ==
    /\ (Truthy(initialImage)
          => pending = {initialImage} /\ surface = BlankSurface(dpr))
    /\ [][/\ (~readOnly /\ pending # {} /\ lastEv' \in DownEvents)
               => isDrawing' /\ pending' = pending
          /\ (~readOnly /\ isDrawing /\ pending # {} /\ lastEv' \in MoveEvents)
               => /\ pending' = pending
                  /\ \A j \in PaintCells(ctxPath'.lo, ctxPath'.hi, dpr,
                                         Len(surface)) :
                        surface'[j] = ctxStrokeStyle
          /\ (lastEv' = "onload")
               => \E img \in pending :
                     /\ pending' = pending \ {img}
                     /\ \A j \in 1..Len(surface) :
                           LET s == Resample(img, j, dpr)
                           IN  s # "transparent" => surface'[j] = s]_vars

C16_Witness ==
    /\ lastEv = "onload"
    /\ initialImage = SavedImage(dpr)
    /\ pending = {}
    /\ isDrawing
    /\ ctxPath # NoPath
    /\ ctxPath.seg
    /\ ctxPath.lo = 0
    /\ ctxStrokeStyle = "#dc2626"
    /\ surface[1] = DefaultColor

\* C17: the image emitted at the end of a stroke is clientWidth
\* pixels wide for every device pixel ratio.
C17_LogicalSize ==
    [][(isDrawing /\ lastEv' \in StopEvents /\ emitted' # <<>>)
         => emitted'[1].width = ClientWidth]_vars

C19_NoMappingOnTouchEnd ==
    /\ mapped # None
         => /\ lastEv \in DownEvents \cup MoveEvents
            /\ "touches" \in DOMAIN mapped.e => Len(mapped.e.touches) >= 1
    /\ lastEv \in StopEvents => mapped = None

C19_Witness ==
    /\ lastEv = "touchend"
    /\ mapped = None
    /\ ~readOnly
    /\ ctxPath # NoPath
    /\ ctxPath.seg
    /\ emitted = <<ToDataURL(surface)>>

\* C20: the backend never holds two documents created from the same new
\* note, whatever the order of autosave firings and addDoc completions.
C20_CreatedOnce ==
    \A d1 \in docs, d2 \in docs : d1.createdAt = d2.createdAt => d1.id = d2.id

\* C21: every change of a compared field restarts the autosave timeout, and
\* when the timeout calls onSave it passes the note as the Editor holds it
\* at that moment.
C21_DebouncedSave ==
    [][/\ (lastEv' = "change") => (timer' # None /\ timer'.note = note')
       /\ (lastEv' = "timeout" /\ Len(inflight') > Len(inflight))
            => inflight'[Len(inflight')].note = note]_vars

\* C22: the autosave never passes to onSave a note whose compared fields
\* equal those of the initialNote the Editor is rendered with.
C22_NoSaveWithoutChange ==
    [][(lastEv' = "timeout" /\ Len(inflight') > Len(inflight))
         => inflight'[Len(inflight')].note.title # currentNote.title]_vars

\* C23: with every write succeeding, once the timeout has run and no write
\* is in flight, the document of the note the Editor shows has the fields
\* the Editor shows.
C23_EventuallyPersisted ==
    (viewMode = "EDITOR" /\ note.id # TempId /\ timer = None /\ inflight = <<>>)
      => \E d \in docs : d.id = note.id /\ d.title = note.title

\* C24: the re-sync that follows the creation of the document keeps what
\* the user entered while addDoc was in flight.
C24_ResyncKeepsEdits ==
    [][(lastEv' = "addDocResolved" /\ viewMode = "EDITOR" /\ note.id = TempId)
         => note'.title = note.title]_vars

\* C25: in Editor, once clear has run and no user input follows, the bitmap
\* stays blank and the host's drawingData stays the empty string, whatever
\* happens to a decode that was in flight when clear was issued.
C25_ClearStaysBlank ==
    [][(lastEv = "clear" /\ emitted = <<EmptyString>>
          /\ lastEv' \in {"onload", "onerror"})
         => /\ surface' = BlankSurface(dpr)
            /\ initialImage' = EmptyString]_vars

\* C26: an Editor that is not mounted has no autosave timeout; the step
\* that unmounts it (Back, or the deletion of the current note) clears the
\* pending timeout and issues no save, and a save is issued only by the
\* timeout of a mounted Editor.
C26_UnmountCancelsTimer ==
    /\ []((viewMode # "EDITOR" \/ currentNote = None)
            => (timer = None /\ note = None))
    /\ [][/\ (viewMode = "EDITOR" /\ viewMode' # "EDITOR")
               => /\ timer' = None
                  /\ cleared' = timer
                  /\ \A i \in 1..Len(inflight') :
                        inflight'[i].op \in {"addDoc", "updateDoc"}
                          => \E j \in 1..Len(inflight) :
                                inflight[j] = inflight'[i]
          /\ (/\ Len(inflight') > Len(inflight)
              /\ inflight'[Len(inflight')].op \in {"addDoc", "updateDoc"})
               => (viewMode = "EDITOR" /\ lastEv' = "timeout")]_vars

C26_Witness ==
    /\ lastEv = "back"
    /\ viewMode = "LIST"
    /\ timer = None
    /\ cleared # None
    /\ cleared.note.title # cleared.initialNote.title
    /\ inflight = <<>>
    /\ \E d \in docs : d.id = cleared.note.id /\ d.title # cleared.note.title

\* C27: deleteDialogOpen holds exactly when noteToDelete is set; a delete
\* request sets both, cancel and a resolved deleteDoc reset both, a rejected
\* deleteDoc leaves both as they are, and deleteDoc is issued only by the
\* confirm action, for the note in noteToDelete.
C27_DeleteDialog ==
    /\ [](deleteDialogOpen <=> noteToDelete # NullId)
    /\ [][/\ (lastEv' = "deleteRequest")
               => (deleteDialogOpen' /\ noteToDelete' # NullId)
          /\ (lastEv' \in {"cancel", "deleteDocResolved"})
               => (~deleteDialogOpen' /\ noteToDelete' = NullId)
          /\ (lastEv' = "deleteDocRejected")
               => UNCHANGED <<deleteDialogOpen, noteToDelete>>
          /\ (/\ Len(inflight') > Len(inflight)
              /\ inflight'[Len(inflight')].op = "deleteDoc")
               => /\ lastEv' = "confirm"
                  /\ deleteDialogOpen
                  /\ inflight'[Len(inflight')].id = noteToDelete]_vars

C27_Witness ==
    /\ lastEv = "deleteDocRejected"
    /\ alerted
    /\ deleteDialogOpen
    /\ noteToDelete = 1
    /\ \E d \in docs : d.id = 1
    /\ inflight = <<>>

\* C28: the 'devo_notes' entry changes only in the step in which a batch
\* commit resolves, which removes it after the notes became documents; a
\* rejected commit and a stored value that does not parse leave the entry
\* and the backend as they are and call no alert.
C28_RemoveAfterCommit ==
    [][/\ (localNotes' # localNotes)
            => /\ lastEv' = "commitResolved"
               /\ localNotes' = None
               /\ \A j \in 1..Len(localNotes.notes) :
                     \E d \in docs' \ docs :
                        /\ d.title = localNotes.notes[j].title
                        /\ d.createdAt = localNotes.notes[j].createdAt
       /\ (lastEv' = "commitRejected")
            => (localNotes' = localNotes /\ docs' = docs /\ ~alerted')
       /\ (lastEv' = "migrateNotes" /\ localNotes = Corrupt)
            => (UNCHANGED <<localNotes, inflight, docs>> /\ ~alerted')]_vars

C28_Witness ==
    /\ lastEv = "commitRejected"
    /\ localNotes # None
    /\ localNotes # Corrupt
    /\ Len(localNotes.notes) = 2
    /\ docs = {}
    /\ inflight = <<>>
    /\ ~alerted

\* C29: no local note becomes more than one document, whatever the order
\* of the runs of migrateNotes and the batch commits.
C29_MigratedOnce ==
    \A k \in 1..MaxLocal :
        Cardinality({d \in docs : d.createdAt = 0 - k}) <= 1

====
